---- MODULE Spec2Model ----
(***************************************************************************)
(* Model of src/src/prediction/predictor_model.py: the Forecaster adapter  *)
(* around darts' CatBoostModel and the module-level entry points.          *)
(*                                                                         *)
(* Data representation                                                     *)
(*   - a DataFrame is a sequence of rows [id |-> series id, t |-> stamp];  *)
(*     a row's stamp identifies the row (its time index and the values of  *)
(*     its columns), so a frame records which rows it holds in which order *)
(*   - a TimeSeries is [cols |-> the columns it was built from,            *)
(*                      rows |-> the stamps of its rows, in order]         *)
(*   - Python's None is NoneV, a value v is Val(v), and an instance        *)
(*     attribute that was never assigned is Unset                          *)
(***************************************************************************)
EXTENDS Integers, Sequences, FiniteSets, TLC

VARIABLES
  inst,     \* the Forecaster instance under test (its attributes)
  args,     \* the arguments its constructor was called with
  file,     \* the model directory: absent, empty, or holding predictor.joblib
  ret,      \* the last call: its name, arguments, raised error and result
  nfits,    \* number of fit calls made on inst so far
  ever_fit  \* whether some fit call on inst has returned normally

vars == <<inst, args, file, ret, nfits, ever_fit>>

(* ------------------------------ bounds -------------------------------- *)
NumIds == 2
MaxRows == 2
MaxHorizon == 2
MaxFits == 2

\* Truncation lengths range up to the longest history.
MaxHistLen == MaxRows

(* --------------------------- Python values ---------------------------- *)
NoneV == <<"None">>
Unset == <<"unset">>
Val(v) == <<"val", v>>

\* Python truthiness of an Optional[int]: None and 0 are falsy.
Truthy(x) == x # NoneV /\ x[2] # 0

\* Python truthiness of a list (of column names).
NonEmpty(l) == l # <<>>

(* ----------------------------- input sets ----------------------------- *)
Ids == 1..NumIds

SeqsUpTo(S, n) == UNION {[1..k -> S] : k \in 1..n}

\* A frame whose i-th row belongs to series ids[i] and carries stamp base + i.
Frame(ids, base) == [i \in 1..Len(ids) |-> [id |-> ids[i], t |-> base + i]]

Histories == {Frame(ids, 0) : ids \in SeqsUpTo(Ids, MaxRows)}

\* The sequence of the numbers of S in ascending order.
RECURSIVE SortedSeq(_)
SortedSeq(S) ==
  IF S = {} THEN <<>>
  ELSE LET m == CHOOSE x \in S : \A y \in S : x <= y
       IN  <<m>> \o SortedSeq(S \ {m})

\* Test frames hold one row for each of some series ids and carry stamps
\* after every history stamp.
TestFrames == {Frame(SortedSeq(S), MaxRows) : S \in SUBSET Ids \ {{}}}

Schemas ==
  [past_covariates : {<<>>, <<"past_cov">>},
   future_covariates : {<<>>, <<"future_cov">>},
   forecast_length : 1..MaxHorizon]

HistLenArgs == {NoneV} \cup {Val(h) : h \in 1..MaxHistLen}

\* Covariate lag settings (lines 31-36): None or a list of lags for the past
\* covariates; None, a (past, future) pair or a list for the future ones.
LagPastArgs == {NoneV, Val(<<-1>>), Val(<<-1, -3>>)}
LagFutureArgs == {NoneV, Val(<<5, 1>>), Val(<<-1, 0>>)}

\* The history_length keyword (lines 108-111): absent (NoneV), 0, or a length.
CtorHistLenArgs == {NoneV} \cup {Val(h) : h \in 0..MaxHistLen}

CtorArgs ==
  [data_schema : Schemas,
   lags_past_covariates : LagPastArgs,
   lags_future_covariates : LagFutureArgs,
   history_length : CtorHistLenArgs]

(* ---------------------------- construction ---------------------------- *)
\* Lines 102-106: a covariate lag setting survives only if the schema
\* declares covariates of that kind.
StoredLagKeepAlways(declared, lag) == lag

StoredLag(declared, lag) == IF NonEmpty(declared) THEN lag ELSE NoneV

\* Lines 108-111: self.history_length is the keyword's value when truthy.
StoredHistoryLength(kw) == IF Truthy(kw) THEN kw ELSE NoneV

\* Lines 109-111 and 123: a truthy history_length is popped from kwargs
\* before they are forwarded; a present falsy one (0) is forwarded.
ForwardedKwargs(kw) ==
  IF kw = NoneV \/ Truthy(kw) THEN {} ELSE {"history_length"}

\* Lines 113-124: the wrapped model, not yet fitted.
CatBoostModel(lpc, lfc, kwargs) ==
  [lags_past_covariates |-> lpc,
   lags_future_covariates |-> lfc,
   kwargs |-> kwargs,
   trained_on |-> NoneV]

\* Lines 89-124.
Forecaster_init(a) ==
  LET lpc == StoredLag(a.data_schema.past_covariates, a.lags_past_covariates)
      lfc == StoredLag(a.data_schema.future_covariates, a.lags_future_covariates)
  IN  [data_schema |-> a.data_schema,
       lags_past_covariates |-> lpc,
       lags_future_covariates |-> lfc,
       is_trained |-> FALSE,
       history_length |-> StoredHistoryLength(a.history_length),
       model |-> CatBoostModel(lpc, lfc, ForwardedKwargs(a.history_length)),
       all_ids |-> Unset,
       targets_series |-> Unset,
       past_covariates |-> Unset,
       future_covariates |-> Unset]

(* --------------------------- data preparation ------------------------- *)
RECURSIVE FirstAppearance(_)
FirstAppearance(df) ==
  IF df = <<>> THEN <<>>
  ELSE LET rest == FirstAppearance(SubSeq(df, 1, Len(df) - 1))
           id == df[Len(df)].id
       IN  IF \E i \in 1..Len(rest) : rest[i] = id THEN rest
           ELSE Append(rest, id)

IdsOf(df) == {df[i].id : i \in 1..Len(df)}

\* Line 148-149: DataFrame.groupby(id_col) sorts the group keys
\* (pandas' default sort=True); groups.keys() lists them in that order.
GroupKeysFirstSeen(df) == FirstAppearance(df)

GroupKeys(df) == SortedSeq(IdsOf(df))

\* Lines 150-153: get_group(id_).drop(columns=id_col): the rows of one
\* series in frame order, without the id column.
GetGroup(df, id) ==
  LET sel == SelectSeq(df, LAMBDA r : r.id = id)
  IN  [i \in 1..Len(sel) |-> sel[i].t]

\* s.iloc[-n:] for n >= 0.
ILocLast(s, n) ==
  IF n = 0 \/ n >= Len(s) THEN s
  ELSE SubSeq(s, Len(s) - n + 1, Len(s))

\* TimeSeries.from_dataframe(rows, value_cols=cols); without value_cols
\* (line 188) every column of the frame becomes a component, the "index"
\* column that reset_index (line 187) adds included.
TimeSeries(cols, rows) == [cols |-> cols, rows |-> rows]

\* Lines 158-159 and 178-180: the truncation is guarded by the
\* history_length argument but slices by self.history_length; negating
\* None raises TypeError.
TruncLen(self, history_length) == self.history_length

NeedsTrunc(history_length) == Truthy(history_length)

\* Line 170: the future-covariate block runs whenever the schema declares
\* future covariates, whether or not a test frame was passed.
FutureDeclaredAndGiven(data_schema, test_dataframe) ==
  NonEmpty(data_schema.future_covariates) /\ test_dataframe # NoneV

FutureDeclared(data_schema, test_dataframe) ==
  NonEmpty(data_schema.future_covariates)

\* Lines 144-195. Returns the error raised ("None" if none), the value
\* assigned to self.all_ids (line 155, before anything can fail) and the
\* three results.
PrepareData(self, history, data_schema, history_length, test_dataframe) ==
  LET all_ids == GroupKeys(history)
      all_series == [i \in 1..Len(all_ids) |-> GetGroup(history, all_ids[i])]
      n == TruncLen(self, history_length)
      cut(s) == IF NeedsTrunc(history_length) THEN ILocLast(s, n[2]) ELSE s
      targets == [i \in 1..Len(all_ids) |-> TimeSeries(<<"target">>, cut(all_series[i]))]
      pastl == IF NonEmpty(data_schema.past_covariates)
               THEN [i \in 1..Len(all_ids) |->
                      TimeSeries(data_schema.past_covariates, cut(all_series[i]))]
               ELSE <<>>
      futl == IF FutureDeclared(data_schema, test_dataframe)
              THEN [i \in 1..Len(all_ids) |->
                     TimeSeries(<<"index">> \o data_schema.future_covariates,
                                cut(all_series[i])
                                  \o cut(GetGroup(test_dataframe[2], all_ids[i])))]
              ELSE <<>>
      error ==
        IF NeedsTrunc(history_length) /\ n = NoneV /\ Len(all_ids) > 0
          THEN "TypeError"
        ELSE IF ~FutureDeclared(data_schema, test_dataframe) THEN "None"
        ELSE IF test_dataframe = NoneV THEN "AttributeError"
        ELSE IF \E i \in 1..Len(all_ids) : all_ids[i] \notin IdsOf(test_dataframe[2])
          THEN "KeyError"
        ELSE "None"
  IN  [error |-> error,
       all_ids |-> all_ids,
       targets |-> IF error = "None" THEN targets ELSE <<>>,
       past |-> IF error # "None" \/ pastl = <<>> THEN NoneV ELSE Val(pastl),
       future |-> IF error # "None" \/ futl = <<>> THEN NoneV ELSE Val(futl)]

(* --------------------------------- fit -------------------------------- *)
\* Line 221: the wrapped model after model.fit returned: it has learnt from
\* the sequences it was given.
ModelFit(model, targets, past, future) ==
  [model EXCEPT !.trained_on =
     Val([targets |-> targets, past |-> past, future |-> future])]

\* As Forecaster_fit, with the trained flag cleared when the call starts.
Forecaster_fit_ClearsTrained(self, history, data_schema, history_length, test_dataframe, libOk) ==
  LET p == PrepareData(self, history, data_schema, history_length, test_dataframe)
      s1 == [self EXCEPT !.all_ids = Val(p.all_ids), !.is_trained = FALSE]
  IN  IF p.error # "None" THEN [error |-> p.error, self |-> s1]
      ELSE IF ~libOk THEN [error |-> "ValueError", self |-> s1]
      ELSE [error |-> "None",
            self |-> [s1 EXCEPT
                       !.model = ModelFit(self.model, p.targets, p.past, p.future),
                       !.is_trained = TRUE,
                       !.data_schema = data_schema,
                       !.targets_series = Val(p.targets),
                       !.past_covariates = p.past,
                       !.future_covariates = p.future]]

\* As Forecaster_fit, with the prepared sequences and the schema stored
\* before the wrapped model is fit.
Forecaster_fit_StoresBeforeFit(self, history, data_schema, history_length, test_dataframe, libOk) ==
  LET p == PrepareData(self, history, data_schema, history_length, test_dataframe)
      s1 == [self EXCEPT !.all_ids = Val(p.all_ids)]
      s2 == [s1 EXCEPT !.data_schema = data_schema,
                       !.targets_series = Val(p.targets),
                       !.past_covariates = p.past,
                       !.future_covariates = p.future]
  IN  IF p.error # "None" THEN [error |-> p.error, self |-> s1]
      ELSE IF ~libOk THEN [error |-> "ValueError", self |-> s2]
      ELSE [error |-> "None",
            self |-> [s2 EXCEPT
                       !.model = ModelFit(self.model, p.targets, p.past, p.future),
                       !.is_trained = TRUE]]

\* Lines 214-230. libOk: whether the wrapped library's fit returns (TRUE) or
\* raises (FALSE), e.g. on series too short for the lags. Returns the error
\* raised ("None" if none) and the instance as the call leaves it.
Forecaster_fit(self, history, data_schema, history_length, test_dataframe, libOk) ==
  LET p == PrepareData(self, history, data_schema, history_length, test_dataframe)
      s1 == [self EXCEPT !.all_ids = Val(p.all_ids)]
  IN  IF p.error # "None" THEN [error |-> p.error, self |-> s1]
      ELSE IF ~libOk THEN [error |-> "ValueError", self |-> s1]
      ELSE [error |-> "None",
            self |-> [s1 EXCEPT
                       !.model = ModelFit(self.model, p.targets, p.past, p.future),
                       !.is_trained = TRUE,
                       !.data_schema = data_schema,
                       !.targets_series = Val(p.targets),
                       !.past_covariates = p.past,
                       !.future_covariates = p.future]]

(* ------------------------------- predict ------------------------------ *)
\* Lines 243 and 267: the trained-state guard of predict and save.
IsTrainedAlways(self) == TRUE

IsTrained(self) == self.is_trained

\* Line 246-251: the wrapped model's forecast: one sequence of n values per
\* series, in the order of the series list. A forecast value is determined
\* by the fitted model, the series it extends (with its covariates) and the
\* step.
CovOf(cov, i) == IF cov = NoneV THEN NoneV ELSE Val(cov[2][i])

ModelPredict(model, n, series, past, future) ==
  [i \in 1..Len(series) |->
    [k \in 1..n |->
      [trained_on |-> model.trained_on,
       series |-> series[i],
       past |-> CovOf(past, i),
       future |-> CovOf(future, i),
       step |-> k]]]

\* Lines 252-256: the per-series forecast values, concatenated.
FlattenLastOnly(ss) == IF ss = <<>> THEN <<>> ELSE ss[Len(ss)]

RECURSIVE Flatten(_)
Flatten(ss) == IF ss = <<>> THEN <<>> ELSE Head(ss) \o Flatten(Tail(ss))

\* A test frame of nrows rows, without a prediction column.
TestData(nrows) == [nrows |-> nrows, columns |-> {}]

\* Line 247: the horizon is read from the schema stored on the instance.
Horizon(self) == self.data_schema.forecast_length

\* Lines 243-259. Returns the error raised and test_data as the call leaves
\* it. Reading an attribute that was never assigned raises AttributeError;
\* assigning a column of the wrong length raises ValueError (line 258).
Forecaster_predict(self, test_data, prediction_col_name, libOk) ==
  IF ~IsTrained(self)
    THEN [error |-> "NotFittedError", test_data |-> test_data]
  ELSE IF Unset \in {self.targets_series, self.past_covariates, self.future_covariates}
    THEN [error |-> "AttributeError", test_data |-> test_data]
  ELSE IF ~libOk
    THEN [error |-> "ValueError", test_data |-> test_data]
  ELSE
    LET predictions == ModelPredict(self.model, Horizon(self), self.targets_series[2],
                                    self.past_covariates, self.future_covariates)
        prediction_values == Flatten(predictions)
    IN  IF Len(prediction_values) # test_data.nrows
          THEN [error |-> "ValueError", test_data |-> test_data]
        ELSE [error |-> "None",
              test_data |-> [test_data EXCEPT !.columns =
                 @ \cup {[name |-> prediction_col_name, values |-> prediction_values]}]]

(* ---------------------------- save and load --------------------------- *)
AttrNames ==
  <<"data_schema", "lags_past_covariates", "lags_future_covariates",
    "is_trained", "history_length", "model",
    "all_ids", "targets_series", "past_covariates", "future_covariates">>

\* Attributes that exist only once assigned (lines 155, 228-230).
LateAttrs == {"all_ids", "targets_series", "past_covariates", "future_covariates"}

HasAttr(obj, a) == IF a \in LateAttrs THEN obj[a] # Unset ELSE TRUE

\* Line 269: joblib.dump pickles the instance: its attribute dictionary,
\* one (name, value) entry per attribute the instance has.
Dump(obj) ==
  LET present == SelectSeq(AttrNames, LAMBDA a : HasAttr(obj, a))
  IN  [i \in 1..Len(present) |-> <<present[i], obj[present[i]]>>]

\* Line 280: joblib.load rebuilds the instance from the pickled entries.
Loads(blob) ==
  [a \in {AttrNames[i] : i \in 1..Len(AttrNames)} |->
     IF \E i \in 1..Len(blob) : blob[i][1] = a
       THEN blob[CHOOSE i \in 1..Len(blob) : blob[i][1] = a][2]
     ELSE Unset]

NoBlob == <<>>

\* Lines 261-269. dir: the directory ("absent", "empty", or "written" when
\* it holds predictor.joblib). Returns the error and the directory after.
Forecaster_save(self, dir) ==
  IF ~IsTrained(self) THEN [error |-> "NotFittedError", dir |-> dir]
  ELSE IF dir.state = "absent" THEN [error |-> "FileNotFoundError", dir |-> dir]
  ELSE [error |-> "None",
        dir |-> [state |-> "written", blob |-> Dump(self), saved |-> <<self>>]]

\* Lines 345-346: the directory is created if absent, before save is tried.
MakeDirs(dir) ==
  IF dir.state = "absent" THEN [dir EXCEPT !.state = "empty"] ELSE dir

\* Lines 271-281.
Forecaster_load(dir) ==
  IF dir.state # "written" THEN [error |-> "FileNotFoundError", model |-> NoneV]
  ELSE [error |-> "None", model |-> Val(Loads(dir.blob))]

(* ------------------------------ evaluate ------------------------------ *)
\* Lines 18-285: what the class Forecaster defines.
ClassAttrs ==
  {"model_name", "__init__", "_prepare_data", "fit", "predict", "save",
   "load", "__str__"}

\* Line 377: model.evaluate is looked up on the instance, then the class.
Lookup(self, name) ==
  IF name \in ClassAttrs
       \/ (name \in {AttrNames[i] : i \in 1..Len(AttrNames)} /\ HasAttr(self, name))
    THEN "None"
  ELSE "AttributeError"

(* ------------------------------- actions ------------------------------ *)
NoDir == [state |-> "absent", blob |-> NoBlob, saved |-> <<>>]

Call(op, a, error, value) == [op |-> op, args |-> a, error |-> error, value |-> value]

TestArgs == {NoneV} \cup {Val(f) : f \in TestFrames}

\* Row counts of the frames handed to predict.
PredictRows == 1..(NumIds * MaxHorizon)

\* Forecaster(data_schema, **hyperparameters): a fresh instance.
Construct(a) ==
  /\ inst' = Forecaster_init(a)
  /\ args' = a
  /\ ret' = Call("construct", a, "None", NoneV)
  /\ nfits' = 0
  /\ ever_fit' = FALSE
  /\ UNCHANGED file

\* Forecaster.fit(history, data_schema, history_length, test_dataframe).
Fit(history, data_schema, history_length, test_dataframe, libOk) ==
  /\ LET r == Forecaster_fit(inst, history, data_schema, history_length,
                             test_dataframe, libOk)
     IN  /\ inst' = r.self
         /\ ret' = Call("fit",
                        [history |-> history, data_schema |-> data_schema,
                         history_length |-> history_length,
                         test_given |-> test_dataframe # NoneV],
                        r.error, NoneV)
         /\ ever_fit' = (ever_fit \/ r.error = "None")
  /\ nfits' = nfits + 1
  /\ UNCHANGED <<args, file>>

\* Forecaster.predict(test_data, prediction_col_name), also reached through
\* predict_with_model (line 334).
Predict(nrows, libOk) ==
  /\ LET r == Forecaster_predict(inst, TestData(nrows), "prediction", libOk)
     IN  ret' = Call("predict", [nrows |-> nrows], r.error, r.test_data)
  /\ UNCHANGED <<inst, args, file, nfits, ever_fit>>

\* Forecaster.save(model_dir_path).
Save ==
  /\ LET r == Forecaster_save(inst, file)
     IN  /\ file' = r.dir
         /\ ret' = Call("save", <<>>, r.error, NoneV)
  /\ UNCHANGED <<inst, args, nfits, ever_fit>>

\* save_predictor_model(model, predictor_dir_path), lines 345-347.
SavePredictorModel ==
  /\ LET r == Forecaster_save(inst, MakeDirs(file))
     IN  /\ file' = r.dir
         /\ ret' = Call("save_predictor_model", <<>>, r.error, NoneV)
  /\ UNCHANGED <<inst, args, nfits, ever_fit>>

\* Forecaster.load(model_dir_path), also reached through
\* load_predictor_model (line 360).
Load ==
  /\ LET r == Forecaster_load(file)
     IN  ret' = Call("load", <<>>, r.error, r.model)
  /\ UNCHANGED <<inst, args, file, nfits, ever_fit>>

\* evaluate_predictor_model(model, x_test, y_test), line 377.
Evaluate ==
  /\ ret' = Call("evaluate", <<>>, Lookup(inst, "evaluate"), NoneV)
  /\ UNCHANGED <<inst, args, file, nfits, ever_fit>>

\* train_predictor_model(history, data_schema, hyperparameters,
\* testing_dataframe), lines 307-317: a new instance is constructed and fit
\* with its own history_length and the constructor's schema, and returned;
\* if fit raises, no instance is returned and the one at hand stays.
TrainPredictorModel(a, history, testing_dataframe, libOk) ==
  /\ LET model == Forecaster_init(a)
         r == Forecaster_fit(model, history, a.data_schema, model.history_length,
                             testing_dataframe, libOk)
     IN  /\ inst' = IF r.error = "None" THEN r.self ELSE inst
         /\ args' = IF r.error = "None" THEN a ELSE args
         /\ nfits' = IF r.error = "None" THEN 1 ELSE nfits
         /\ ever_fit' = IF r.error = "None" THEN TRUE ELSE ever_fit
         /\ ret' = Call("train_predictor_model",
                        [history |-> history, data_schema |-> a.data_schema,
                         history_length |-> a.history_length,
                         test_given |-> testing_dataframe # NoneV],
                        r.error, NoneV)
  /\ UNCHANGED file

(* --------------------------- specifications --------------------------- *)
\* Constructor arguments of the instance under test: the signature's default
\* lags (lines 31-36), a schema of horizon 1 without past covariates, and a
\* history_length keyword that is absent or the longest length.
InitArgs ==
  {a \in CtorArgs :
     /\ a.lags_past_covariates = NoneV
     /\ a.lags_future_covariates = Val(<<5, 1>>)
     /\ a.data_schema.forecast_length = 1
     /\ a.data_schema.past_covariates = <<>>
     /\ a.history_length \in {NoneV, Val(MaxHistLen)}}

Init ==
  /\ args \in InitArgs
  /\ inst = Forecaster_init(args)
  /\ file = NoDir
  /\ ret = Call("construct", args, "None", NoneV)
  /\ nfits = 0
  /\ ever_fit = FALSE

\* Inputs of the lifecycle specification: the one-row histories and the
\* history with one row per series id, ids descending; schemas of the
\* longest horizon with no covariates or with both kinds; no test frame or
\* the one covering every series id.
LifeHistories ==
  {h \in Histories : Len(h) = 1}
    \cup {Frame([i \in 1..NumIds |-> NumIds + 1 - i], 0)}
LifeSchemas ==
  {s \in Schemas :
     /\ s.forecast_length = MaxHorizon
     /\ (s.past_covariates = <<>>) = (s.future_covariates = <<>>)}
LifeHistLens == {NoneV, Val(1)}
LifeTests == {NoneV} \cup {Val(f) : f \in {g \in TestFrames : Len(g) = NumIds}}

\* The lifecycle of one instance: up to MaxFits fit calls interleaved with
\* predict, save, load and evaluate.
Next ==
  \/ /\ nfits < MaxFits
     /\ \E h \in LifeHistories, s \in LifeSchemas, hl \in LifeHistLens,
           t \in LifeTests, ok \in BOOLEAN : Fit(h, s, hl, t, ok)
  \/ \E n \in PredictRows, ok \in BOOLEAN : Predict(n, ok)
  \/ Save
  \/ SavePredictorModel
  \/ Load
  \/ Evaluate

Spec == Init /\ [][Next]_vars

\* One fit or training call as the first call after construction, over all
\* histories, schemas, history lengths and test frames, then predict.
NextFresh ==
  \/ /\ ret.op = "construct"
     /\ \E h \in Histories, s \in Schemas, hl \in HistLenArgs, t \in TestArgs,
           ok \in BOOLEAN : Fit(h, s, hl, t, ok)
  \/ /\ ret.op = "construct"
     /\ \E a \in InitArgs, h \in Histories, t \in TestArgs, ok \in BOOLEAN :
           TrainPredictorModel(a, h, t, ok)
  \/ \E n \in PredictRows, ok \in BOOLEAN : Predict(n, ok)

SpecFresh == Init /\ [][NextFresh]_vars

\* Construction alone, over all constructor arguments.
NextCtor == \E a \in CtorArgs : Construct(a)

SpecCtor == Init /\ [][NextCtor]_vars

(* ------------------------------- claims ------------------------------- *)
FitOps == {"fit", "train_predictor_model"}
SaveOps == {"save", "save_predictor_model"}

\* C1: on an instance on which no fit call has returned normally, every
\* predict and every save call raises NotFittedError; the predict call leaves
\* its test frame without a prediction column and the save call leaves the
\* directory without a predictor file.
C1_UnfitRejects ==
  ~ever_fit =>
    /\ ret.op = "predict" =>
         ret.error = "NotFittedError" /\ ret.value.columns = {}
    /\ ret.op \in SaveOps =>
         ret.error = "NotFittedError" /\ file.state # "written"

\* A predict call on an instance whose only fit calls failed.
C1_Witness ==
  /\ ~ever_fit
  /\ nfits > 0
  /\ ret.op = "predict"
  /\ ret.error = "NotFittedError"

\* C9: after construction the stored past (future) covariate lag setting and
\* the one handed to the wrapped model are None when the schema declares no
\* past (future) covariates, and the constructor's argument otherwise.
C9_LagsFollowSchema ==
  ret.op = "construct" =>
    LET ds == args.data_schema
        wantPast == IF ds.past_covariates = <<>> THEN NoneV
                    ELSE args.lags_past_covariates
        wantFuture == IF ds.future_covariates = <<>> THEN NoneV
                      ELSE args.lags_future_covariates
    IN  /\ inst.lags_past_covariates = wantPast
        /\ inst.model.lags_past_covariates = wantPast
        /\ inst.lags_future_covariates = wantFuture
        /\ inst.model.lags_future_covariates = wantFuture

\* Constructed with both lag settings given and a schema declaring future
\* covariates only: the past setting is dropped, the future one kept.
C9_Witness ==
  /\ ret.op = "construct"
  /\ args.data_schema.past_covariates = <<>>
  /\ args.data_schema.future_covariates # <<>>
  /\ args.lags_past_covariates # NoneV
  /\ args.lags_future_covariates # NoneV
  /\ inst.lags_past_covariates = NoneV
  /\ inst.lags_future_covariates = args.lags_future_covariates

\* The prediction column of a frame returned by predict.
PredictionColumn(test_data) ==
  (CHOOSE c \in test_data.columns : c.name = "prediction").values

\* The series id of the history row carrying stamp t.
IdOfStamp(history, t) ==
  history[CHOOSE i \in 1..Len(history) : history[i].t = t].id

\* The series ids of a list of sequences built from history, in list order.
SeriesOrder(history, series) ==
  [i \in 1..Len(series) |-> IdOfStamp(history, series[i].rows[1])]

StrictlyIncreasing(q) == \A i, j \in 1..Len(q) : i < j => q[i] < q[j]

\* C2: when a fit on a history with N distinct series ids is followed by a
\* predict that returns, the prediction column holds N * forecast_length
\* values, forecast_length being that of the schema passed to fit, and the
\* returned frame has that many rows.
C2_BlockSize ==
  [][(/\ ret.op \in FitOps
      /\ ret.error = "None"
      /\ ret'.op = "predict"
      /\ ret'.error = "None")
     => LET n == Cardinality(IdsOf(ret.args.history))
                   * ret.args.data_schema.forecast_length
        IN  /\ \E c \in ret'.value.columns : c.name = "prediction"
            /\ Len(PredictionColumn(ret'.value)) = n
            /\ ret'.value.nrows = n]_vars

\* A prediction of NumIds series over the longest horizon.
C2_Witness ==
  /\ ret.op = "predict"
  /\ ret.error = "None"
  /\ Len(inst.targets_series[2]) = NumIds
  /\ inst.data_schema.forecast_length = MaxHorizon
  /\ Len(PredictionColumn(ret.value)) = NumIds * MaxHorizon

\* C3 as stated: the series order fixed by fit is the order in which the
\* series ids first appear in the history.
C3_FirstAppearanceOrder ==
  (ret.op \in FitOps /\ ret.error = "None") =>
    /\ inst.all_ids = Val(FirstAppearance(ret.args.history))
    /\ SeriesOrder(ret.args.history, inst.targets_series[2])
         = FirstAppearance(ret.args.history)

\* C3 as amended: the series order fixed by fit is the ascending order of
\* the distinct series ids of the history, whatever the order of their first
\* appearance, and predict emits the forecasts series by series in that
\* order, each over the steps 1..forecast_length.
C3_SortedOrder ==
  (ret.op \in FitOps /\ ret.error = "None") =>
    LET ids == inst.all_ids[2]
        series == inst.targets_series[2]
        h == inst.data_schema.forecast_length
        r == Forecaster_predict(inst, TestData(Len(series) * h), "prediction", TRUE)
        vals == PredictionColumn(r.test_data)
    IN  /\ StrictlyIncreasing(ids)
        /\ {ids[i] : i \in 1..Len(ids)} = IdsOf(ret.args.history)
        /\ SeriesOrder(ret.args.history, series) = ids
        /\ r.error = "None"
        /\ \A i \in 1..Len(series), k \in 1..h :
             /\ vals[(i - 1) * h + k].series = series[i]
             /\ vals[(i - 1) * h + k].step = k

\* A fit on a history whose ids first appear in descending order.
C3_Witness ==
  /\ ret.op \in FitOps
  /\ ret.error = "None"
  /\ Len(inst.all_ids[2]) > 1
  /\ FirstAppearance(ret.args.history) # inst.all_ids[2]

\* The rows of each series' group, in the instance's series order.
GroupsOf(history, ids) == [i \in 1..Len(ids) |-> GetGroup(history, ids[i])]

\* C7 as stated: a fit called with history_length h builds each target (and
\* past-covariate) sequence from the last h rows of the series' group, and
\* from all its rows when h is absent, whatever history_length the
\* constructor was given.
C7_TruncatesByArgument ==
  (ret.op = "fit" /\ ret.error = "None") =>
    LET h == ret.args.history_length
        groups == GroupsOf(ret.args.history, inst.all_ids[2])
        want(g) == IF h = NoneV THEN g ELSE ILocLast(g, h[2])
    IN  /\ \A i \in 1..Len(groups) :
             inst.targets_series[2][i].rows = want(groups[i])
        /\ inst.past_covariates # NoneV =>
             \A i \in 1..Len(groups) :
               inst.past_covariates[2][i].rows = want(groups[i])

\* What fit retains for predict (lines 227-230).
Retained(self) ==
  <<self.data_schema, self.targets_series, self.past_covariates,
    self.future_covariates>>

\* C4 as stated: once the instance is fit, no call re-fits it, replaces its
\* retained sequences or schema, or returns it to the unfit state.
C4_FitIsTerminal ==
  [][inst.is_trained =>
       (inst'.is_trained /\ Retained(inst') = Retained(inst))]_vars

\* C4 as amended: once the instance is fit it never returns to the unfit
\* state, and predict, save, load, evaluate and a fit call that raises leave
\* its retained sequences and schema as they were; a fit call that returns
\* on a fit instance re-fits it.
C4_OnlyFitRefits ==
  [][inst.is_trained =>
       /\ inst'.is_trained
       /\ (ret'.op # "fit" \/ ret'.error # "None") =>
            Retained(inst') = Retained(inst)]_vars

\* A fit instance was saved and then fit again on other data.
C4_Witness ==
  /\ ret.op = "fit"
  /\ ret.error = "None"
  /\ file.state = "written"
  /\ file.saved[1].is_trained
  /\ Retained(file.saved[1]) # Retained(inst)

\* C6 as stated: a fit call that raises leaves the trained flag, the schema,
\* the series id list and the retained target, past- and future-covariate
\* sequences as they were before the call.
C6_FailedFitChangesNothing ==
  [][(ret'.op = "fit" /\ nfits' = nfits + 1 /\ ret'.error # "None")
       => /\ inst'.is_trained = inst.is_trained
          /\ Retained(inst') = Retained(inst)
          /\ inst'.all_ids = inst.all_ids]_vars

\* C6 as amended: a fit call that raises leaves the trained flag, the schema
\* and the retained target, past- and future-covariate sequences as they
\* were before the call; the series id list is not kept: it holds the ids of
\* the history passed to the failed call.
C6_FailedFitKeepsRetained ==
  [][(ret'.op = "fit" /\ nfits' = nfits + 1 /\ ret'.error # "None")
       => /\ inst'.is_trained = inst.is_trained
          /\ Retained(inst') = Retained(inst)
          /\ inst'.all_ids = Val(GroupKeys(ret'.args.history))]_vars

\* A fit call raised on an instance fit before on other series ids.
C6_Witness ==
  /\ ret.op = "fit"
  /\ ret.error # "None"
  /\ inst.is_trained
  /\ Len(inst.all_ids[2]) # Len(inst.targets_series[2])

\* C8: a fit call whose schema declares future covariates and which is
\* given no test frame raises, and leaves the trained flag as it was.
C8_FutureNeedsTestData ==
  [][(/\ ret'.op = "fit"
      /\ nfits' = nfits + 1
      /\ ret'.args.data_schema.future_covariates # <<>>
      /\ ~ret'.args.test_given)
     => (ret'.error # "None" /\ inst'.is_trained = inst.is_trained)]_vars

\* Such a call, raising on the missing frame, on an instance not yet fit.
C8_Witness ==
  /\ ret.op = "fit"
  /\ ret.args.data_schema.future_covariates # <<>>
  /\ ~ret.args.test_given
  /\ ret.error = "AttributeError"
  /\ ~inst.is_trained

\* C10 as stated: evaluate_predictor_model on a trained instance finds the
\* evaluation routine on the adapter and returns without raising.
C10_EvaluateReturns ==
  (ret.op = "evaluate" /\ inst.is_trained) => ret.error = "None"

====
